---- MODULE Spec2Model ----
(***************************************************************************)
(* A model of the redis-go server: one worker (goroutine) per accepted     *)
(* connection runs handleConnection, which decodes RESP arrays of bulk     *)
(* strings from its byte stream and executes PING, ECHO, SET, GET and      *)
(* RPUSH against one map guarded by one sync.RWMutex.                      *)
(*                                                                         *)
(* The repository holds three revisions of the program.  The variable rev  *)
(* names the revision that runs:                                           *)
(*   "part_000"  strings with expiry and lists (the latest revision),      *)
(*   "part_001"  strings with expiry, no lists,                            *)
(*   "main.go"   plain strings, and a decoder that closes the connection   *)
(*               on a bad line instead of skipping it.                     *)
(*                                                                         *)
(* A byte is a one-character string, a Go string or []byte is a sequence   *)
(* of bytes, so that the decoder and the reply formatting are computed     *)
(* byte by byte as the code computes them.                                 *)
(***************************************************************************)
EXTENDS Integers, Sequences, FiniteSets, TLC

VARIABLES
    rev,          \* the revision of the program that is running
    scenario,     \* which clients this run has: names the chunks they may send
    now,          \* time.Now(), in milliseconds
    storage,      \* var storage: the map, a function from its keys to Values
    mutex,        \* var mutex: the sync.RWMutex
    crashed,      \* TRUE once a goroutine has panicked: the process is gone
    inbuf,        \* per connection: the bytes sent and not yet read
    eof,          \* per connection: the client has closed its side
    sent,         \* per connection: how many chunks the client has sent
    pc,           \* per connection: where its worker stands in handleConnection
    numElements,  \* per connection: the local numElements
    command,      \* per connection: the local command
    expiryTime,   \* per connection: the local expiryTime of SET
    entry,        \* per connection: the local entry, exists of GET
    out,          \* per connection: the replies written and not yet read by the client
    lastWrite,    \* history: per key, the last store write of a SET or RPUSH
    seen          \* history: per connection, lastWrite of its key when GET began

vars == <<rev, scenario, now, storage, mutex, crashed, inbuf, eof, sent, pc,
          numElements, command, expiryTime, entry, out, lastWrite, seen>>

(***************************************************************************)
(* Bounds of the model.                                                    *)
(***************************************************************************)
MaxChunks == 2      \* chunks one client sends at most
MaxTime == 3        \* the clock runs from 1 to MaxTime
Horizon == 1000     \* a duration longer than this many milliseconds is kept at it

\* the chunks one client sends at most in the scenario of the run
Budget == IF scenario = "long" THEN MaxChunks + 1 ELSE MaxChunks

Conns == {"c1", "c2"}

Revisions == {"part_000", "part_001", "main.go"}

(***************************************************************************)
(* Bytes and strings.                                                      *)
(***************************************************************************)
CR == "\r"
LF == "\n"
CRLF == <<CR, LF>>

Digits == <<"0", "1", "2", "3", "4", "5", "6", "7", "8", "9">>

IsDigit(b) == \E d \in 1..10 : Digits[d] = b

DigitVal(b) == (CHOOSE d \in 1..10 : Digits[d] = b) - 1

Lower ==
    <<"a", "b", "c", "d", "e", "f", "g", "h", "i", "j", "k", "l", "m", "n", "o", "p",
      "q", "r", "s", "t", "u", "v", "w", "x", "y", "z">>
Upper ==
    <<"A", "B", "C", "D", "E", "F", "G", "H", "I", "J", "K", "L", "M", "N", "O", "P",
      "Q", "R", "S", "T", "U", "V", "W", "X", "Y", "Z">>

\* strings.ToUpper on one byte
UpperByte(b) ==
    IF \E k \in 1..Len(Lower) : Lower[k] = b
    THEN Upper[CHOOSE k \in 1..Len(Lower) : Lower[k] = b]
    ELSE b

\* strings.ToUpper
ToUpper(s) == [k \in 1..Len(s) |-> UpperByte(s[k])]

\* the digits of n >= 0, as %d prints them
RECURSIVE Digs(_)
Digs(n) == IF n < 10 THEN <<Digits[n + 1]>> ELSE Digs(n \div 10) \o <<Digits[(n % 10) + 1]>>

\* fmt.Sprintf("%d", n)
Itoa(n) == IF n < 0 THEN <<"-">> \o Digs(0 - n) ELSE Digs(n)

\* the value of a sequence of digits
RECURSIVE DigitsVal(_)
DigitsVal(s) ==
    IF Len(s) = 0 THEN 0
    ELSE 10 * DigitsVal(SubSeq(s, 1, Len(s) - 1)) + DigitVal(s[Len(s)])

\* strconv.Atoi: an optional sign and at least
\* one digit, nothing else; err is non-nil otherwise
Atoi(s) ==
    LET signed == Len(s) > 0 /\ s[1] \in {"+", "-"}
        body == IF signed THEN Tail(s) ELSE s
    IN  IF Len(body) = 0 \/ \E k \in 1..Len(body) : ~IsDigit(body[k])
        THEN [ok |-> FALSE, val |-> 0]
        ELSE [ok |-> TRUE,
              val |-> IF signed /\ s[1] = "-" THEN 0 - DigitsVal(body) ELSE DigitsVal(body)]

(***************************************************************************)
(* int64 arithmetic.  A natural number is the sequence of its bits, the    *)
(* least significant first; an int64 is a word of 64 bits in two's         *)
(* complement.                                                             *)
(***************************************************************************)
RECURSIVE AddBits(_, _, _)
AddBits(a, b, carry) ==
    IF a = <<>> /\ b = <<>>
    THEN IF carry = 1 THEN <<1>> ELSE <<>>
    ELSE LET x == IF a = <<>> THEN 0 ELSE a[1]
             y == IF b = <<>> THEN 0 ELSE b[1]
             sum == x + y + carry
         IN  <<sum % 2>> \o AddBits(IF a = <<>> THEN <<>> ELSE Tail(a),
                                     IF b = <<>> THEN <<>> ELSE Tail(b),
                                     sum \div 2)

\* 10 * a = 2 * a + 8 * a
Times10(a) == AddBits(<<0>> \o a, <<0, 0, 0>> \o a, 0)

RECURSIVE IntBits(_)
IntBits(n) == IF n = 0 THEN <<>> ELSE <<n % 2>> \o IntBits(n \div 2)

RECURSIVE BitsInt(_)
BitsInt(a) == IF a = <<>> THEN 0 ELSE a[1] + 2 * BitsInt(Tail(a))

\* the number a decimal digit string denotes
RECURSIVE Magnitude(_)
Magnitude(s) ==
    IF Len(s) = 0 THEN <<>>
    ELSE AddBits(Times10(Magnitude(SubSeq(s, 1, Len(s) - 1))),
                 IntBits(DigitVal(s[Len(s)])), 0)

\* the position of the highest bit set, 0 for the number 0
BitLen(a) ==
    LET set == {i \in 1..Len(a) : a[i] = 1}
    IN  IF set = {} THEN 0 ELSE CHOOSE i \in set : \A j \in set : j <= i

\* the low 64 bits: what an int64 keeps of a result
Word(a) == [i \in 1..64 |-> IF i <= Len(a) THEN a[i] ELSE 0]

\* -w in two's complement
Negate(w) == Word(AddBits([i \in 1..64 |-> 1 - w[i]], <<1>>, 0))

\* strconv.ParseInt(s, 10, 64): an optional sign and at least one digit,
\* nothing else, and a value from -2^63 to 2^63 - 1; err is non-nil otherwise
ParseInt(s) ==
    LET signed == Len(s) > 0 /\ s[1] \in {"+", "-"}
        minus == signed /\ s[1] = "-"
        body == IF signed THEN Tail(s) ELSE s
        mag == Magnitude(body)
        inRange == \/ BitLen(mag) <= 63
                   \/ minus /\ BitLen(mag) = 64 /\ \A i \in 1..63 : mag[i] = 0
    IN  IF Len(body) = 0 \/ \E k \in 1..Len(body) : ~IsDigit(body[k])
        THEN [ok |-> FALSE, ms |-> Word(<<>>)]
        ELSE IF ~inRange
        THEN [ok |-> FALSE, ms |-> Word(<<>>)]
        ELSE [ok |-> TRUE, ms |-> IF minus THEN Negate(Word(mag)) ELSE Word(mag)]

\* time.Duration(ms) * time.Millisecond: an int64 product with the constant
\* 1000000, which wraps around
MulMillisecond(ms) ==
    Word(Times10(Times10(Times10(Times10(Times10(Times10(ms)))))))

\* a Duration, which counts nanoseconds, in the milliseconds of the clock of
\* the model, rounded down and kept within Horizon
Millis(d) ==
    LET minus == d[64] = 1
        mag == IF minus THEN Negate(d) ELSE d
        away == IF BitLen(mag) > 30 THEN Horizon
                ELSE IF BitsInt(SubSeq(mag, 1, 30)) \div 1000000 >= Horizon THEN Horizon
                ELSE BitsInt(SubSeq(mag, 1, 30))
    IN  IF away = Horizon
        THEN IF minus THEN 0 - Horizon ELSE Horizon
        ELSE IF minus THEN (0 - away) \div 1000000 ELSE away \div 1000000

\* the index of the first LF of buf from position k on, 0 when there is none
RECURSIVE ScanLF(_, _)
ScanLF(buf, k) ==
    IF k > Len(buf) THEN 0 ELSE IF buf[k] = LF THEN k ELSE ScanLF(buf, k + 1)

\* the index of the first LF of buf, 0 when it has none
IndexLF(buf) == ScanLF(buf, 1)

\* strings.TrimSuffix(line, "\r\n")
TrimSuffix(line) ==
    IF Len(line) >= 2 /\ line[Len(line) - 1] = CR /\ line[Len(line)] = LF
    THEN SubSeq(line, 1, Len(line) - 2)
    ELSE line

\* buf without its first n bytes
Drop(buf, n) == SubSeq(buf, n + 1, Len(buf))

(***************************************************************************)
(* The replies of the server.                                              *)
(***************************************************************************)
PONG == <<"+", "P", "O", "N", "G">> \o CRLF

OK == <<"+", "O", "K">> \o CRLF

NullBulk == <<"$", "-", "1">> \o CRLF

\* "-ERR wrong number of arguments for '<name>' command\r\n"
ErrArity(name) ==
    <<"-", "E", "R", "R", " ", "w", "r", "o", "n", "g", " ", "n", "u", "m", "b", "e",
      "r", " ", "o", "f", " ", "a", "r", "g", "u", "m", "e", "n", "t", "s", " ", "f",
      "o", "r", " ", "'">>
    \o name \o
    <<"'", " ", "c", "o", "m", "m", "a", "n", "d">> \o CRLF

ErrUnknown ==
    <<"-", "E", "R", "R", " ", "u", "n", "k", "n", "o", "w", "n", " ", "c", "o", "m",
      "m", "a", "n", "d">> \o CRLF

WrongType ==
    <<"-", "W", "R", "O", "N", "G", "T", "Y", "P", "E", " ", "O", "p", "e", "r", "a",
      "t", "i", "o", "n", " ", "a", "g", "a", "i", "n", "s", "t", " ", "a", " ", "k",
      "e", "y", " ", "h", "o", "l", "d", "i", "n", "g", " ", "t", "h", "e", " ", "w",
      "r", "o", "n", "g", " ", "k", "i", "n", "d", " ", "o", "f", " ", "v", "a", "l",
      "u", "e">> \o CRLF

\* fmt.Sprintf("$%d\r\n%s\r\n", len(arg), arg)
Bulk(s) == <<"$">> \o Itoa(Len(s)) \o CRLF \o s \o CRLF

\* fmt.Sprintf(":%d\r\n", n)
IntReply(n) == <<":">> \o Itoa(n) \o CRLF

(***************************************************************************)
(* The values of the store.                                                *)
(***************************************************************************)
String == 0
List == 1

\* the zero time.Time, far before the clock of the model: an entry with this
\* expiresAt never expires
ZeroTime == -100000

\* t.IsZero()
IsZero(t) == t = ZeroTime

\* a variant of StringValue that leaves the pointer strData nil
StringValueNil(value, expiresAt) ==
    [dataType |-> String, strData |-> <<>>, listData |-> <<>>]

\* Value{dataType: String, strData: &storageEntry{value, expiresAt}}; a pointer
\* is a sequence of at most one storageEntry, nil being the empty one
StringValue(value, expiresAt) ==
    [dataType |-> String,
     strData |-> <<[value |-> value, expiresAt |-> expiresAt]>>,
     listData |-> <<>>]

\* Value{dataType: List, listData: newList}
ListValue(newList) == [dataType |-> List, strData |-> <<>>, listData |-> newList]

\* a map assignment that loses the other keys
PutAlone(m, key, value) == [x \in {key} |-> value]

\* a variant of Put in which a string written over a string keeps the expiry
\* of the string it replaces
PutMixed(m, key, value) ==
    [x \in DOMAIN m \cup {key} |->
        IF x # key THEN m[x]
        ELSE IF /\ key \in DOMAIN m
                /\ "dataType" \in DOMAIN value
                /\ m[key].dataType = String /\ value.dataType = String
        THEN [value EXCEPT !.strData =
                 <<[value |-> value.strData[1].value,
                    expiresAt |-> m[key].strData[1].expiresAt]>>]
        ELSE value]

\* storage[key] = value
Put(m, key, value) == [x \in DOMAIN m \cup {key} |-> IF x = key THEN value ELSE m[x]]

\* delete(storage, key)
Delete(m, key) == [x \in DOMAIN m \ {key} |-> m[x]]

\* entry, exists := storage[key]: the entry found, or none
Lookup(m, key) == IF key \in DOMAIN m THEN <<m[key]>> ELSE <<>>

(***************************************************************************)
(* The mutex.                                                              *)
(***************************************************************************)
\* mutex.Unlock()
Unlock == [mutex EXCEPT !.writer = FALSE]

\* a variant of RUnlock that leaves the mutex as it is
RUnlockForgotten == mutex

\* mutex.RUnlock()
RUnlock == [mutex EXCEPT !.readers = mutex.readers - 1]

\* mutex.Lock() returns only while no writer and no reader holds the mutex
CanLock == ~mutex.writer /\ mutex.readers = 0

\* a read lock that does not wait for the writer
CanRLockAlways == TRUE

\* mutex.RLock() returns only while no writer holds the mutex
CanRLock == ~mutex.writer

(***************************************************************************)
(* The clients.  A client sends whole chunks of bytes; what the chunks are *)
(* depends on the scenario.                                                *)
(***************************************************************************)
PING == <<"P", "I", "N", "G">>
ECHO == <<"E", "C", "H", "O">>
SET == <<"S", "E", "T">>
GET == <<"G", "E", "T">>
RPUSH == <<"R", "P", "U", "S", "H">>
PX == <<"P", "X">>

K1 == <<"k">>
K2 == <<"j">>
VA == <<"a">>
VB == <<"b">>

RECURSIVE Flatten(_)
Flatten(ss) == IF Len(ss) = 0 THEN <<>> ELSE Head(ss) \o Flatten(Tail(ss))

\* the request format: *<N>\r\n followed by $<L>\r\n<L bytes>\r\n for each argument
Encode(args) ==
    <<"*">> \o Itoa(Len(args)) \o CRLF \o Flatten([k \in 1..Len(args) |-> Bulk(args[k])])

\* the elements of a request: $<L>\r\n<L bytes> and the two bytes end for each
\* argument
Body(args, end) ==
    Flatten([k \in 1..Len(args) |->
                <<"$">> \o Itoa(Len(args[k])) \o CRLF \o args[k] \o end])

\* the header line of a request of n elements
HeaderLineOf(n) == <<"*">> \o Itoa(n) \o CRLF

\* a request whose elements end with the two bytes end
Frame(args, end) == HeaderLineOf(Len(args)) \o Body(args, end)

\* the store scenario: the first client writes a string that expires and
\* reads it
StoreChunks1 ==
    { Encode(<<SET, K1, VB, PX, <<"1">>>>),
      Encode(<<GET, K1>>) }

\* the store scenario: the second client writes strings and lists and reads
StoreChunks2 ==
    { Encode(<<SET, K1, VA>>),
      Encode(<<SET, K2, VB>>),
      Encode(<<RPUSH, K1, VB>>),
      Encode(<<GET, K1>>) }

\* the wire scenario: the first client sends well-formed, malformed and
\* truncated bytes
WireChunks1 ==
    { Encode(<<PING>>),
      <<"x">> \o CRLF,
      CRLF,
      <<"*", "x">> \o CRLF,
      <<"*", "2">> \o CRLF \o Bulk(PING) \o <<"x">> \o CRLF,
      <<"*", "1">> \o CRLF \o <<"$", "x">> \o CRLF,
      <<"*", "1">> \o CRLF,
      <<"*", "2">> \o CRLF \o Bulk(PING) \o <<"$", "4">> \o CRLF \o <<"P", "I">>,
      <<"*", "1">> }

\* the args scenario: the first client sends commands with too few arguments,
\* unknown commands and commands in lower case, alone or followed by a PING
ArgsChunks1 ==
    { Encode(<<SET, K1>>),
      Encode(<<<<"g", "e", "t">>>>),
      Encode(<<RPUSH, K1>>),
      Encode(<<<<"F", "O", "O">>, K1>>),
      Encode(<<<<"s", "e", "t">>, K1, VA>>),
      Encode(<<SET>>) \o Encode(<<PING>>) }

\* 2^63 / 10^6 rounded up: the least number of milliseconds whose count of
\* nanoseconds does not fit an int64
WrapMs == <<"9", "2", "2", "3", "3", "7", "2", "0", "3", "6", "8", "5", "5">>

\* the expiry scenario: the first client sends SETs with trailing arguments of
\* every shape, and a GET
ExpiryChunks1 ==
    { Encode(<<SET, K1, VA, <<"p", "X">>, <<"1">>>>),
      Encode(<<SET, K1, VA, <<"E", "X">>, <<"1">>>>),
      Encode(<<SET, K1, VA, PX>>),
      Encode(<<SET, K1, VA, PX, <<"1">>, <<"z">>>>),
      Encode(<<SET, K1, VA, PX, <<"x">>>>),
      Encode(<<SET, K1, VA, PX, WrapMs>>),
      Encode(<<GET, K1>>) }

\* the frames scenario: the requests of the first client, with payloads that
\* hold CR, LF, '*' and '$', an empty payload, and two bytes other than CR LF
\* after the payloads
Frames ==
    { [args |-> <<ECHO, CRLF>>, end |-> CRLF],
      [args |-> <<ECHO, <<"*", "1", CR, LF, "$">>>>, end |-> CRLF],
      [args |-> <<ECHO, <<>>>>, end |-> CRLF],
      [args |-> <<ECHO>>, end |-> CRLF],
      [args |-> <<SET, K1, <<LF>>>>, end |-> CRLF],
      [args |-> <<GET, K1>>, end |-> <<"x", "y">>] }

\* the frames scenario: the first client sends one request, or two at once
FrameChunks1 ==
    {Frame(f.args, f.end) : f \in Frames}
      \cup {Encode(<<SET, K1, VA>>) \o Encode(<<GET, K1>>),
            Encode(<<ECHO>>) \o Encode(<<PING>>)}

\* the lines that are no length line: no '$', no number, nothing
BadLines == {<<"x">> \o CRLF, <<"$", "x">> \o CRLF, CRLF}

\* the framing scenario: the first client sends requests cut short by a line
\* that is no length line, after no, one and two elements, and headers and
\* length lines with the numbers 0, -1 and -3
FramingChunks1 ==
    { HeaderLineOf(2) \o Body(<<PING>>, CRLF) \o <<"x">> \o CRLF,
      HeaderLineOf(1) \o <<"$", "x">> \o CRLF,
      HeaderLineOf(3) \o Body(<<SET, K1>>, CRLF) \o CRLF,
      <<"*", "0">> \o CRLF,
      <<"*", "-", "1">> \o CRLF,
      HeaderLineOf(1) \o <<"$", "0">> \o CRLF \o CRLF,
      HeaderLineOf(1) \o <<"$", "-", "1">> \o CRLF \o <<"x">>,
      HeaderLineOf(1) \o <<"$", "-", "3">> \o CRLF,
      Encode(<<PING>>) }

\* the expiry scenario: the second client pushes and reads
ExpiryChunks2 == {Encode(<<RPUSH, K1, VB>>), Encode(<<GET, K1>>)}

\* the wire and args scenarios: the second client is a well-behaved peer
PeerChunks ==
    { Encode(<<SET, K1, VB, PX, <<"1">>>>),
      Encode(<<GET, K1>>),
      Encode(<<RPUSH, K1, VB>>) }

Chunks(c) ==
    CASE scenario \in {"store", "long"} -> IF c = "c1" THEN StoreChunks1 ELSE StoreChunks2
      [] scenario = "fair" -> IF c = "c1" THEN StoreChunks1 ELSE ExpiryChunks2
      [] scenario = "wire" -> IF c = "c1" THEN WireChunks1 ELSE PeerChunks
      [] scenario = "args" -> IF c = "c1" THEN ArgsChunks1 ELSE PeerChunks
      [] scenario = "framing" -> IF c = "c1" THEN FramingChunks1 ELSE PeerChunks
      [] scenario = "frames" -> IF c = "c1" THEN FrameChunks1 ELSE PeerChunks
      [] scenario = "expiry" -> IF c = "c1" THEN ExpiryChunks1 ELSE ExpiryChunks2

(***************************************************************************)
(* The initial state: the listener is bound, the connections are accepted  *)
(* and each worker stands at the top of its loop.                          *)
(***************************************************************************)
InitWith(revs, scen) ==
    /\ rev \in revs
    /\ scenario = scen
    /\ now = 1
    /\ storage = <<>>
    /\ mutex = [writer |-> FALSE, readers |-> 0]
    /\ crashed = FALSE
    /\ inbuf = [c \in Conns |-> <<>>]
    /\ eof = [c \in Conns |-> FALSE]
    /\ sent = [c \in Conns |-> 0]
    /\ pc = [c \in Conns |-> "header"]
    /\ numElements = [c \in Conns |-> 0]
    /\ command = [c \in Conns |-> <<>>]
    /\ expiryTime = [c \in Conns |-> ZeroTime]
    /\ entry = [c \in Conns |-> <<>>]
    /\ out = [c \in Conns |-> <<>>]
    /\ lastWrite = <<>>
    /\ seen = [c \in Conns |-> <<>>]

Init == InitWith({"part_000"}, "store")

InitLong == InitWith({"part_000"}, "long")

InitWire == InitWith(Revisions, "wire")

InitWireLatest == InitWith({"part_000"}, "wire")

InitArgs == InitWith(Revisions, "args")

InitExpiry == InitWith({"part_000"}, "expiry")

InitFair == InitWith({"part_000"}, "fair")

InitFraming == InitWith({"part_000"}, "framing")

InitFrames == InitWith({"part_000"}, "frames")

(***************************************************************************)
(* The decoder, one read of the loop at a time.  buf holds the bytes that  *)
(* have arrived, closed says that no more will arrive.                     *)
(***************************************************************************)
\* The top of the loop: read the array header line.  The outcomes:
\*   wait      ReadString blocks, no LF has arrived
\*   eof       ReadString fails: the worker returns
\*   return    main.go only: a bad line, the worker returns
\*   panic     trimmedLine[0] of an empty line, or make with a negative capacity
\*   continue  the line is skipped
\*   array     command = make([]string, 0, n)
HeaderStep(buf, closed, rv) ==
    LET k == IndexLF(buf)
        trimmedLine == TrimSuffix(SubSeq(buf, 1, k))
        rest == Drop(buf, k)
        strict == rv = "main.go"
        bad == [kind |-> IF strict THEN "return" ELSE "continue", rest |-> rest, n |-> 0]
    IN  IF k = 0
        THEN [kind |-> IF closed THEN "eof" ELSE "wait", rest |-> buf, n |-> 0]
        ELSE IF Len(trimmedLine) = 0
        THEN IF strict THEN [kind |-> "panic", rest |-> rest, n |-> 0] ELSE bad
        ELSE IF trimmedLine[1] # "*"
        THEN bad
        ELSE IF ~Atoi(Tail(trimmedLine)).ok
        THEN bad
        ELSE IF Atoi(Tail(trimmedLine)).val < 0
        THEN [kind |-> "panic", rest |-> rest, n |-> Atoi(Tail(trimmedLine)).val]
        ELSE [kind |-> "array", rest |-> rest, n |-> Atoi(Tail(trimmedLine)).val]

\* a variant of BulkStep in which a failed read leaves the loop as a malformed
\* length line does, instead of ending the worker
BulkStepNoEof(buf, closed, rv) ==
    LET k == IndexLF(buf)
        trimmedBulkLenLine == TrimSuffix(SubSeq(buf, 1, k))
        rest == Drop(buf, k)
        strict == rv = "main.go"
        bulkLen == Atoi(Tail(trimmedBulkLenLine)).val
        none == <<>>
        bad == [kind |-> IF strict THEN "return" ELSE "break", rest |-> rest, arg |-> none]
        fail == [kind |-> IF closed THEN "break" ELSE "wait", rest |-> buf, arg |-> none]
    IN  IF k = 0
        THEN fail
        ELSE IF Len(trimmedBulkLenLine) = 0
        THEN IF strict THEN [kind |-> "panic", rest |-> rest, arg |-> none] ELSE bad
        ELSE IF trimmedBulkLenLine[1] # "$"
        THEN bad
        ELSE IF ~Atoi(Tail(trimmedBulkLenLine)).ok
        THEN bad
        ELSE IF bulkLen + 2 < 0
        THEN [kind |-> "panic", rest |-> rest, arg |-> none]
        ELSE IF Len(rest) < bulkLen + 2
        THEN fail
        ELSE IF bulkLen < 0
        THEN [kind |-> "panic", rest |-> Drop(rest, bulkLen + 2), arg |-> none]
        ELSE [kind |-> "arg", rest |-> Drop(rest, bulkLen + 2),
              arg |-> SubSeq(rest, 1, bulkLen)]

\* a variant of BulkStep that leaves the loop when the two bytes after the
\* payload are not CR LF
BulkStepChecked(buf, closed, rv) ==
    LET k == IndexLF(buf)
        trimmedBulkLenLine == TrimSuffix(SubSeq(buf, 1, k))
        rest == Drop(buf, k)
        strict == rv = "main.go"
        bulkLen == Atoi(Tail(trimmedBulkLenLine)).val
        none == <<>>
        bad == [kind |-> IF strict THEN "return" ELSE "break", rest |-> rest, arg |-> none]
    IN  IF k = 0
        THEN [kind |-> IF closed THEN "eof" ELSE "wait", rest |-> buf, arg |-> none]
        ELSE IF Len(trimmedBulkLenLine) = 0
        THEN IF strict THEN [kind |-> "panic", rest |-> rest, arg |-> none] ELSE bad
        ELSE IF trimmedBulkLenLine[1] # "$"
        THEN bad
        ELSE IF ~Atoi(Tail(trimmedBulkLenLine)).ok
        THEN bad
        ELSE IF bulkLen + 2 < 0
        THEN [kind |-> "panic", rest |-> rest, arg |-> none]
        ELSE IF Len(rest) < bulkLen + 2
        THEN [kind |-> IF closed THEN "eof" ELSE "wait", rest |-> buf, arg |-> none]
        ELSE IF bulkLen < 0
        THEN [kind |-> "panic", rest |-> Drop(rest, bulkLen + 2), arg |-> none]
        ELSE IF SubSeq(rest, bulkLen + 1, bulkLen + 2) # CRLF
        THEN [kind |-> "break", rest |-> Drop(rest, bulkLen + 2), arg |-> none]
        ELSE [kind |-> "arg", rest |-> Drop(rest, bulkLen + 2),
              arg |-> SubSeq(rest, 1, bulkLen)]

\* One iteration of the for loop over the elements: read the bulk length line
\* and then bulkLen+2 bytes.  The outcomes:
\*   wait      ReadString or io.ReadFull blocks
\*   eof       ReadString or io.ReadFull fails: the worker returns
\*   return    main.go only: a bad line, the worker returns
\*   panic     an index or a make out of range
\*   break     the length line is malformed: the loop is left
\*   arg       command = append(command, string(data[:bulkLen]))
BulkStep(buf, closed, rv) ==
    LET k == IndexLF(buf)
        trimmedBulkLenLine == TrimSuffix(SubSeq(buf, 1, k))
        rest == Drop(buf, k)
        strict == rv = "main.go"
        bulkLen == Atoi(Tail(trimmedBulkLenLine)).val
        none == <<>>
        bad == [kind |-> IF strict THEN "return" ELSE "break", rest |-> rest, arg |-> none]
    IN  IF k = 0
        THEN [kind |-> IF closed THEN "eof" ELSE "wait", rest |-> buf, arg |-> none]
        ELSE IF Len(trimmedBulkLenLine) = 0
        THEN IF strict THEN [kind |-> "panic", rest |-> rest, arg |-> none] ELSE bad
        ELSE IF trimmedBulkLenLine[1] # "$"
        THEN bad
        ELSE IF ~Atoi(Tail(trimmedBulkLenLine)).ok
        THEN bad
        ELSE IF bulkLen + 2 < 0
        THEN [kind |-> "panic", rest |-> rest, arg |-> none]
        ELSE IF Len(rest) < bulkLen + 2
        THEN [kind |-> IF closed THEN "eof" ELSE "wait", rest |-> buf, arg |-> none]
        ELSE IF bulkLen < 0
        THEN [kind |-> "panic", rest |-> Drop(rest, bulkLen + 2), arg |-> none]
        ELSE [kind |-> "arg", rest |-> Drop(rest, bulkLen + 2),
              arg |-> SubSeq(rest, 1, bulkLen)]

\* a variant of BulkLoop that drops the elements collected when the loop is
\* left at a malformed length line
RECURSIVE BulkLoopDrop(_, _, _, _, _)
BulkLoopDrop(buf, closed, rv, cmd, n) ==
    IF Len(cmd) >= n
    THEN [kind |-> "done", rest |-> buf, command |-> cmd]
    ELSE LET r == BulkStep(buf, closed, rv)
         IN  IF r.kind = "arg"
             THEN BulkLoopDrop(r.rest, closed, rv, Append(cmd, r.arg), n)
             ELSE [kind |-> r.kind, rest |-> r.rest,
                   command |-> IF r.kind = "break" THEN <<>> ELSE cmd]

\* for i := 0; i < numElements; i++ { ... }: the iterations the bytes at hand
\* allow, from the elements cmd collected so far.  The outcomes are those of
\* BulkStep, and done once numElements elements are collected
RECURSIVE BulkLoop(_, _, _, _, _)
BulkLoop(buf, closed, rv, cmd, n) ==
    IF Len(cmd) >= n
    THEN [kind |-> "done", rest |-> buf, command |-> cmd]
    ELSE LET r == BulkStep(buf, closed, rv)
         IN  IF r.kind = "arg"
             THEN BulkLoop(r.rest, closed, rv, Append(cmd, r.arg), n)
             ELSE [kind |-> r.kind, rest |-> r.rest, command |-> cmd]

(***************************************************************************)
(* The dispatch switch.                                                    *)
(***************************************************************************)
\* a variant of Write that writes the reply twice
WriteTwice(c, r) == out' = [out EXCEPT ![c] = out[c] \o <<r, r>>]

\* a variant of Route in which the switch has no default case
RouteSilent(cmd, rv) ==
    LET name == ToUpper(cmd[1])
        reply(r) == [to |-> "header", reply |-> <<r>>]
        goto(p) == [to |-> p, reply |-> <<>>]
    IN  CASE name = PING -> reply(PONG)
          [] name = ECHO ->
                IF Len(cmd) > 1 THEN reply(Bulk(cmd[2])) ELSE goto("header")
          [] name = SET ->
                IF Len(cmd) >= 3 THEN goto("set_lock")
                ELSE reply(ErrArity(<<"s", "e", "t">>))
          [] name = GET ->
                IF Len(cmd) >= 2 THEN goto("get_rlock")
                ELSE reply(ErrArity(<<"g", "e", "t">>))
          [] name = RPUSH /\ rv = "part_000" ->
                IF Len(cmd) >= 3 THEN goto("rpush_lock")
                ELSE reply(ErrArity(<<"r", "p", "u", "s", "h">>))
          [] OTHER -> goto("header")

\* switch strings.ToUpper(command[0]): the replies written at once (at most
\* one) and the place the worker goes to
Route(cmd, rv) ==
    LET name == ToUpper(cmd[1])
        reply(r) == [to |-> "header", reply |-> <<r>>]
        goto(p) == [to |-> p, reply |-> <<>>]
    IN  CASE name = PING -> reply(PONG)
          [] name = ECHO ->
                IF Len(cmd) > 1 THEN reply(Bulk(cmd[2])) ELSE goto("header")
          [] name = SET ->
                IF Len(cmd) >= 3 THEN goto("set_lock")
                ELSE reply(ErrArity(<<"s", "e", "t">>))
          [] name = GET ->
                IF Len(cmd) >= 2 THEN goto("get_rlock")
                ELSE reply(ErrArity(<<"g", "e", "t">>))
          [] name = RPUSH /\ rv = "part_000" ->
                IF Len(cmd) >= 3 THEN goto("rpush_lock")
                ELSE reply(ErrArity(<<"r", "p", "u", "s", "h">>))
          [] OTHER -> reply(ErrUnknown)

\* the expiryTime of a SET: time.Now().Add(expiryDuration) for the five
\* argument form with PX and a number, the zero time otherwise
ExpiryOf(cmd, rv, t) ==
    IF /\ rv # "main.go"
       /\ Len(cmd) = 5
       /\ ToUpper(cmd[4]) = PX
       /\ ParseInt(cmd[5]).ok
    THEN t + Millis(MulMillisecond(ParseInt(cmd[5]).ms))
    ELSE ZeroTime

\* !expiresAt.IsZero() && time.Now().After(expiresAt)
Expired(expiresAt, t) == ~IsZero(expiresAt) /\ t > expiresAt

(***************************************************************************)
(* The steps of a worker.                                                  *)
(***************************************************************************)
\* the locals of worker c after a step
Locals(c, p, n, cmd, exp, ent) ==
    /\ pc' = [pc EXCEPT ![c] = p]
    /\ numElements' = [numElements EXCEPT ![c] = n]
    /\ command' = [command EXCEPT ![c] = cmd]
    /\ expiryTime' = [expiryTime EXCEPT ![c] = exp]
    /\ entry' = [entry EXCEPT ![c] = ent]

\* back at the top of the for loop: the locals of the iteration are gone
Loop(c) ==
    /\ Locals(c, "header", 0, <<>>, ZeroTime, <<>>)
    /\ seen' = [seen EXCEPT ![c] = <<>>]

\* the worker moves on inside the iteration
Goto(c, p) == pc' = [pc EXCEPT ![c] = p]

\* return: the deferred conn.Close() runs, what the client sent is dropped;
\* the locals stay as they were, cmd being the elements collected so far
Return(c, cmd) ==
    /\ Locals(c, "closed", numElements[c], cmd, expiryTime[c], entry[c])
    /\ inbuf' = [inbuf EXCEPT ![c] = <<>>]
    /\ seen' = [seen EXCEPT ![c] = <<>>]

\* conn.Write(r)
Write(c, r) == out' = [out EXCEPT ![c] = Append(out[c], r)]

\* an unrecovered panic of the goroutine of c ends the process
Panic(c) ==
    /\ crashed' = TRUE
    /\ pc' = [pc EXCEPT ![c] = "panic"]

key(c) == command[c][2]

value(c) == command[c][3]

\* a variant of newList that appends the element to the list the key holds
newListAppended(c) ==
    IF command[c][2] \in DOMAIN storage /\ storage[command[c][2]].dataType = List
    THEN Append(storage[command[c][2]].listData, command[c][3])
    ELSE <<command[c][3]>>

\* RPUSH: newList := []string{element}
newList(c) == <<command[c][3]>>

\* the worker of c is blocked in a read of its connection
Waiting(c) ==
    IF pc[c] = "header" THEN HeaderStep(inbuf[c], FALSE, rev).kind = "wait"
    ELSE pc[c] = "bulk" /\ BulkLoop(inbuf[c], FALSE, rev, command[c], numElements[c]).kind = "wait"

\* the client of c reads the replies that have arrived and sends a chunk, while
\* the worker waits for bytes
ClientSend(c) ==
    /\ ~crashed /\ ~eof[c] /\ sent[c] < Budget
    /\ Waiting(c)
    /\ \E chunk \in Chunks(c) : inbuf' = [inbuf EXCEPT ![c] = inbuf[c] \o chunk]
    /\ sent' = [sent EXCEPT ![c] = sent[c] + 1]
    /\ out' = [out EXCEPT ![c] = <<>>]
    /\ UNCHANGED <<rev, scenario, now, storage, mutex, crashed, eof, pc, numElements,
                   command, expiryTime, entry, lastWrite, seen>>

\* the client of c closes its side while the worker waits for bytes
ClientClose(c) ==
    /\ ~crashed /\ ~eof[c]
    /\ Waiting(c)
    /\ eof' = [eof EXCEPT ![c] = TRUE]
    /\ UNCHANGED <<rev, scenario, now, storage, mutex, crashed, inbuf, sent, pc,
                   numElements, command, expiryTime, entry, out, lastWrite, seen>>

\* time passes
Tick ==
    /\ ~crashed /\ now < MaxTime
    /\ now' = now + 1
    /\ UNCHANGED <<rev, scenario, storage, mutex, crashed, inbuf, eof, sent, pc,
                   numElements, command, expiryTime, entry, out, lastWrite, seen>>

\* line, err := reader.ReadString('\n') and the parse of the array header
ReadHeader(c) ==
    /\ ~crashed /\ pc[c] = "header"
    /\ LET r == HeaderStep(inbuf[c], eof[c], rev)
       IN  /\ r.kind # "wait"
           /\ CASE r.kind \in {"eof", "return"} ->
                     Return(c, command[c]) /\ UNCHANGED crashed
                [] r.kind = "panic" ->
                     /\ Panic(c)
                     /\ UNCHANGED <<inbuf, numElements, command, expiryTime, entry, seen>>
                [] r.kind = "continue" ->
                     /\ inbuf' = [inbuf EXCEPT ![c] = r.rest]
                     /\ UNCHANGED <<crashed, pc, numElements, command, expiryTime, entry, seen>>
                [] r.kind = "array" ->
                     /\ inbuf' = [inbuf EXCEPT ![c] = r.rest]
                     /\ Locals(c, "bulk", r.n, <<>>, ZeroTime, <<>>)
                     /\ UNCHANGED <<crashed, seen>>
    /\ UNCHANGED <<rev, scenario, now, storage, mutex, eof, sent, out, lastWrite>>

\* if len(command) > 0 { switch cmd { ... } }, for the command cmd: the replies
\* that need no store are written at once, SET, GET and RPUSH go on to their
\* critical sections
Dispatch(c, cmd) ==
    IF Len(cmd) = 0
    THEN Loop(c) /\ UNCHANGED out
    ELSE LET r == Route(cmd, rev)
         IN  /\ out' = [out EXCEPT ![c] = out[c] \o r.reply]
             /\ IF r.to = "header"
                THEN Loop(c)
                ELSE /\ Locals(c, r.to, numElements[c], cmd,
                               IF r.to = "set_lock" THEN ExpiryOf(cmd, rev, now)
                               ELSE ZeroTime,
                               <<>>)
                     /\ seen' = [seen EXCEPT ![c] =
                            IF r.to = "get_rlock"
                            THEN <<[w |-> Lookup(lastWrite, cmd[2]),
                                    late |-> /\ cmd[2] \in DOMAIN lastWrite
                                             /\ Expired(lastWrite[cmd[2]].expiresAt, now),
                                    stale |-> FALSE]>>
                            ELSE <<>>]

\* the loop that reads the elements of the array, as far as the bytes at hand
\* allow, and the dispatch of the command once the loop is left
ReadBulk(c) ==
    /\ ~crashed /\ pc[c] = "bulk"
    /\ LET r == BulkLoop(inbuf[c], eof[c], rev, command[c], numElements[c])
       IN  /\ r.kind = "wait" => Len(r.command) > Len(command[c])
           /\ CASE r.kind \in {"eof", "return"} ->
                     Return(c, r.command) /\ UNCHANGED <<crashed, out>>
                [] r.kind = "panic" ->
                     /\ Panic(c)
                     /\ UNCHANGED <<inbuf, numElements, command, expiryTime, entry,
                                    seen, out>>
                [] r.kind = "wait" ->
                     /\ inbuf' = [inbuf EXCEPT ![c] = r.rest]
                     /\ command' = [command EXCEPT ![c] = r.command]
                     /\ UNCHANGED <<crashed, pc, numElements, expiryTime, entry, seen, out>>
                [] r.kind \in {"break", "done"} ->
                     /\ inbuf' = [inbuf EXCEPT ![c] = r.rest]
                     /\ Dispatch(c, r.command)
                     /\ UNCHANGED crashed
    /\ UNCHANGED <<rev, scenario, now, storage, mutex, eof, sent, lastWrite>>

\* the record of a completed store write in the history: the command, its
\* value and expiry, and the variant the key held before
Written(kind, v, exp, over) ==
    [kind |-> kind, value |-> v, expiresAt |-> exp, over |-> over]

\* the GETs under way on key k have seen a write of k since they began
Stale(c, k) ==
    [d \in Conns |->
        IF d # c /\ seen[d] # <<>> /\ pc[d] \notin {"header", "bulk", "closed"}
              /\ command[d][2] = k
        THEN <<[seen[d][1] EXCEPT !.stale = TRUE]>>
        ELSE seen[d]]

\* the variant the key holds: "none", "string" or "list"
Holds(k) ==
    IF k \notin DOMAIN storage THEN "none"
    ELSE IF storage[k].dataType = String THEN "string" ELSE "list"

\* SET: mutex.Lock()
SetLock(c) ==
    /\ ~crashed /\ pc[c] = "set_lock"
    /\ CanLock
    /\ mutex' = [mutex EXCEPT !.writer = TRUE]
    /\ Goto(c, "set_store")
    /\ UNCHANGED <<rev, scenario, now, storage, crashed, inbuf, eof, sent, numElements,
                   command, expiryTime, entry, out, lastWrite, seen>>

\* SET: storage[key] = Value{...}; mutex.Unlock(); conn.Write("+OK\r\n")
SetStore(c) ==
    /\ ~crashed /\ pc[c] = "set_store"
    /\ storage' = Put(storage, key(c), StringValue(value(c), expiryTime[c]))
    /\ mutex' = Unlock
    /\ Write(c, OK)
    /\ Locals(c, "header", 0, <<>>, ZeroTime, <<>>)
    /\ lastWrite' = Put(lastWrite, key(c),
                        Written("SET", value(c), expiryTime[c], Holds(key(c))))
    /\ seen' = Stale(c, key(c))
    /\ UNCHANGED <<rev, scenario, now, crashed, inbuf, eof, sent>>

\* GET: mutex.RLock()
GetRLock(c) ==
    /\ ~crashed /\ pc[c] = "get_rlock"
    /\ CanRLock
    /\ mutex' = [mutex EXCEPT !.readers = mutex.readers + 1]
    /\ Goto(c, "get_read")
    /\ UNCHANGED <<rev, scenario, now, storage, crashed, inbuf, eof, sent, numElements,
                   command, expiryTime, entry, out, lastWrite, seen>>

\* GET: entry, exists := storage[key]; mutex.RUnlock()
GetRead(c) ==
    /\ ~crashed /\ pc[c] = "get_read"
    /\ entry' = [entry EXCEPT ![c] = Lookup(storage, key(c))]
    /\ mutex' = RUnlock
    /\ Goto(c, "get_check")
    /\ UNCHANGED <<rev, scenario, now, storage, crashed, inbuf, eof, sent, numElements,
                   command, expiryTime, out, lastWrite, seen>>

\* GET: what is done with the entry that was read.  The outcomes: a reply
\* written at once, the passive delete of an expired entry, or the panic of
\* entry.strData.expiresAt on a nil strData
GetOutcome(ent, t) ==
    IF ent = <<>> THEN [kind |-> "reply", reply |-> NullBulk]
    ELSE IF ent[1].dataType # String THEN [kind |-> "reply", reply |-> WrongType]
    ELSE IF ent[1].strData = <<>> THEN [kind |-> "panic", reply |-> <<>>]
    ELSE IF Expired(ent[1].strData[1].expiresAt, t) THEN [kind |-> "delete", reply |-> <<>>]
    ELSE [kind |-> "reply", reply |-> Bulk(ent[1].strData[1].value)]

\* GET: if !exists ... switch entry.dataType ...
GetCheck(c) ==
    /\ ~crashed /\ pc[c] = "get_check"
    /\ LET r == GetOutcome(entry[c], now)
       IN  CASE r.kind = "reply" ->
                     Write(c, r.reply) /\ Loop(c) /\ UNCHANGED crashed
             [] r.kind = "delete" ->
                     /\ Goto(c, "get_lock")
                     /\ UNCHANGED <<crashed, out, numElements, command, expiryTime,
                                    entry, seen>>
             [] r.kind = "panic" ->
                     /\ Panic(c)
                     /\ UNCHANGED <<out, numElements, command, expiryTime, entry, seen>>
    /\ UNCHANGED <<rev, scenario, now, storage, mutex, inbuf, eof, sent, lastWrite>>

\* GET of an expired entry: mutex.Lock()
GetLock(c) ==
    /\ ~crashed /\ pc[c] = "get_lock"
    /\ CanLock
    /\ mutex' = [mutex EXCEPT !.writer = TRUE]
    /\ Goto(c, "get_delete")
    /\ UNCHANGED <<rev, scenario, now, storage, crashed, inbuf, eof, sent, numElements,
                   command, expiryTime, entry, out, lastWrite, seen>>

\* GET of an expired entry: delete(storage, key); mutex.Unlock();
\* conn.Write("$-1\r\n")
GetDelete(c) ==
    /\ ~crashed /\ pc[c] = "get_delete"
    /\ storage' = Delete(storage, key(c))
    /\ mutex' = Unlock
    /\ Write(c, NullBulk)
    /\ Loop(c)
    /\ UNCHANGED <<rev, scenario, now, crashed, inbuf, eof, sent, lastWrite>>

\* RPUSH: mutex.Lock()
RPushLock(c) ==
    /\ ~crashed /\ pc[c] = "rpush_lock"
    /\ CanLock
    /\ mutex' = [mutex EXCEPT !.writer = TRUE]
    /\ Goto(c, "rpush_store")
    /\ UNCHANGED <<rev, scenario, now, storage, crashed, inbuf, eof, sent, numElements,
                   command, expiryTime, entry, out, lastWrite, seen>>

\* RPUSH: newList := []string{element}; storage[key] = Value{...};
\* mutex.Unlock(); conn.Write(fmt.Sprintf(":%d\r\n", len(newList)))
RPushStore(c) ==
    /\ ~crashed /\ pc[c] = "rpush_store"
    /\ storage' = Put(storage, key(c), ListValue(newList(c)))
    /\ mutex' = Unlock
    /\ Write(c, IntReply(Len(newList(c))))
    /\ Locals(c, "header", 0, <<>>, ZeroTime, <<>>)
    /\ lastWrite' = Put(lastWrite, key(c),
                        Written("RPUSH", value(c), ZeroTime, Holds(key(c))))
    /\ seen' = Stale(c, key(c))
    /\ UNCHANGED <<rev, scenario, now, crashed, inbuf, eof, sent>>

Next ==
    \/ Tick
    \/ \E c \in Conns :
          \/ ClientSend(c)
          \/ ClientClose(c)
          \/ ReadHeader(c)
          \/ ReadBulk(c)
          \/ SetLock(c)
          \/ SetStore(c)
          \/ GetRLock(c)
          \/ GetRead(c)
          \/ GetCheck(c)
          \/ GetLock(c)
          \/ GetDelete(c)
          \/ RPushLock(c)
          \/ RPushStore(c)

\* the latest revision, its clients sending well-formed store commands
Spec == Init /\ [][Next]_vars

\* the same with one more chunk for each client
SpecLong == InitLong /\ [][Next]_vars

\* the steps in which the worker of c handles a command it has dispatched
Handle(c) ==
    \/ SetLock(c) \/ SetStore(c)
    \/ GetRLock(c) \/ GetRead(c) \/ GetCheck(c) \/ GetLock(c) \/ GetDelete(c)
    \/ RPushLock(c) \/ RPushStore(c)

\* the latest revision under a fair scheduler: a goroutine that can take a
\* step of the handling of its command, the mutex letting it, is not left
\* waiting forever.  The first client writes a string that
\* expires and reads it, the second pushes and reads
SpecFair == InitFair /\ [][Next]_vars /\ \A c \in Conns : WF_vars(Handle(c))

\* every revision, the first client sending well-formed, malformed and
\* truncated bytes
SpecWire == InitWire /\ [][Next]_vars

\* the same for the latest revision alone
SpecWireLatest == InitWireLatest /\ [][Next]_vars

\* every revision, the first client sending commands the dispatch rejects
SpecArgs == InitArgs /\ [][Next]_vars

\* the latest revision, the first client sending SETs with trailing arguments
SpecExpiry == InitExpiry /\ [][Next]_vars

\* the latest revision, the first client sending requests that are cut short
\* and framing numbers that are zero or negative
SpecFraming == InitFraming /\ [][Next]_vars

\* the latest revision, the first client sending well-formed requests with
\* payloads of every kind, one or two at once
SpecFrames == InitFrames /\ [][Next]_vars

(***************************************************************************)
(* Vocabulary of the claims.                                               *)
(***************************************************************************)
\* this step writes the reply of the GET of worker c
GetReplies(c) == pc[c] \in {"get_check", "get_delete"} /\ pc'[c] = "header"

\* the reply worker c writes in this step
NewReply(c) == out'[c][Len(out'[c])]

\* the GET of worker c began after a SET or RPUSH of its key had completed,
\* and no SET or RPUSH has written the key since
Settled(c) == seen[c] # <<>> /\ seen[c][1].w # <<>> /\ ~seen[c][1].stale

\* that completed write
Prior(c) == seen[c][1].w[1]

(***************************************************************************)
(* C1.  Write visibility: once a SET k v without expiry has completed,     *)
(* every GET k that starts afterwards replies with the bulk string v,      *)
(* until another SET or RPUSH writes k.  Stated of the step in which a GET *)
(* writes its reply.                                                       *)
(***************************************************************************)
C1_WriteVisible ==
    [][\A c \in Conns :
          (/\ GetReplies(c)
           /\ Settled(c)
           /\ Prior(c).kind = "SET"
           /\ IsZero(Prior(c).expiresAt))
          => NewReply(c) = Bulk(Prior(c).value)]_vars

(***************************************************************************)
(* C2.  Expiry round trip: after SET k v PX t, a GET k while t has not     *)
(* elapsed replies with v and leaves the entry in the store; a GET k that  *)
(* starts after t has elapsed replies with the null bulk string and leaves *)
(* the store without k.                                                    *)
(***************************************************************************)
C2_ExpiryRoundTrip ==
    [][\A c \in Conns :
          (/\ GetReplies(c)
           /\ Settled(c)
           /\ Prior(c).kind = "SET"
           /\ ~IsZero(Prior(c).expiresAt))
          => /\ now < Prior(c).expiresAt
                  => /\ NewReply(c) = Bulk(Prior(c).value)
                     /\ key(c) \in DOMAIN storage'
             /\ seen[c][1].late
                  => /\ NewReply(c) = NullBulk
                     /\ key(c) \notin DOMAIN storage']_vars

(***************************************************************************)
(* C3.  Type mismatch: a GET on a key whose last completed write was an    *)
(* RPUSH replies with the wrong-type error, keeps the connection open and  *)
(* leaves the stored list unchanged.                                       *)
(***************************************************************************)
C3_WrongType ==
    [][\A c \in Conns :
          (/\ GetReplies(c)
           /\ Settled(c)
           /\ Prior(c).kind = "RPUSH")
          => /\ NewReply(c) = WrongType
             /\ pc'[c] # "closed"
             /\ Lookup(storage', key(c)) = <<ListValue(<<Prior(c).value>>)>>]_vars

(***************************************************************************)
(* C4.  SET overwrites any prior variant: a SET k v on a key holding a     *)
(* list replies +OK and leaves k holding the string v, and the next GET k  *)
(* replies with the bulk string v.                                         *)
(***************************************************************************)
C4_SetOverList ==
    [][\A c \in Conns :
          /\ (pc[c] = "set_store" /\ pc'[c] # "set_store" /\ Holds(key(c)) = "list")
             => /\ NewReply(c) = OK
                /\ storage'[key(c)] = StringValue(value(c), expiryTime[c])
          /\ (/\ GetReplies(c)
              /\ Settled(c)
              /\ Prior(c).kind = "SET"
              /\ Prior(c).over = "list"
              /\ ~Expired(Prior(c).expiresAt, now))
             => NewReply(c) = Bulk(Prior(c).value)]_vars

(***************************************************************************)
(* C5.  Concurrent SETs to distinct keys do not interfere: the store write *)
(* of a SET, in every interleaving with the commands of the other          *)
(* connection, maps its key to its value, leaves the entry of every other  *)
(* key as it was, and grows the store by one exactly when its key is new.  *)
(***************************************************************************)
SetWrites(c) == pc[c] = "set_store" /\ pc'[c] # "set_store"

C5_DistinctKeys ==
    [][\A c \in Conns :
          SetWrites(c)
          => /\ key(c) \in DOMAIN storage'
             /\ storage'[key(c)] = StringValue(value(c), expiryTime[c])
             /\ \A k \in DOMAIN storage \ {key(c)} :
                   k \in DOMAIN storage' /\ storage'[k] = storage[k]
             /\ Cardinality(DOMAIN storage') =
                   Cardinality(DOMAIN storage) + (IF key(c) \in DOMAIN storage THEN 0 ELSE 1)
             /\ \A d \in Conns \ {c} :
                   /\ command'[d] = command[d]
                   /\ expiryTime'[d] = expiryTime[d]]_vars

\* two SETs to distinct keys are under way at once: one is inside its write,
\* the other waits for the lock
C5_Witness ==
    /\ pc["c1"] = "set_store" /\ key("c1") = K1
    /\ pc["c2"] = "set_lock" /\ key("c2") = K2

(***************************************************************************)
(* C6.  Mutual exclusion on the store: while a worker is inside a store    *)
(* write (the assignment of SET or RPUSH, the delete of GET) no other      *)
(* worker is inside a store write or inside the lookup of GET; the mutex   *)
(* counts the workers inside.                                              *)
(***************************************************************************)
InWrite(c) == pc[c] \in {"set_store", "rpush_store", "get_delete"}

InRead(c) == pc[c] = "get_read"

C6_MutualExclusion ==
    /\ \A c, d \in Conns : (c # d /\ InWrite(c)) => (~InWrite(d) /\ ~InRead(d))
    /\ mutex.writer = (\E c \in Conns : InWrite(c))
    /\ mutex.readers = Cardinality({c \in Conns : InRead(c)})

\* a worker is inside the passive delete while the other asks for the read lock
C6_Witness == pc["c1"] = "get_delete" /\ pc["c2"] = "get_rlock"

\* both workers are inside the lookup of GET at once
C6_TwoReaders == pc["c1"] = "get_read" /\ pc["c2"] = "get_read"

(***************************************************************************)
(* Vocabulary of the claims about the decoder.                             *)
(***************************************************************************)
\* this step is a read of worker c: it takes bytes off the connection or
\* moves the worker
ReaderStep(c) ==
    /\ pc[c] \in {"header", "bulk"}
    /\ \/ Len(inbuf'[c]) < Len(inbuf[c])
       \/ pc'[c] # pc[c]

\* the first line of the bytes at hand, with its LF
FirstLine(buf) == SubSeq(buf, 1, IndexLF(buf))

\* a line that is empty, does not start with '*', or whose count is no
\* decimal integer
NonCommandLine(line) ==
    LET t == TrimSuffix(line)
    IN  \/ Len(t) = 0
        \/ t[1] # "*"
        \/ ~Atoi(Tail(t)).ok

\* the locals of every worker but c, and what its client holds, stay
OthersUntouched(c) ==
    \A d \in Conns \ {c} :
        /\ pc'[d] = pc[d] /\ inbuf'[d] = inbuf[d] /\ eof'[d] = eof[d]
        /\ out'[d] = out[d] /\ command'[d] = command[d]
        /\ numElements'[d] = numElements[d] /\ entry'[d] = entry[d]
        /\ expiryTime'[d] = expiryTime[d]

(***************************************************************************)
(* C7.  Decoder resynchronisation: a line at the array-header position     *)
(* that is empty, does not start with '*', or whose count is no decimal    *)
(* integer is discarded, and only that line; no reply is written, the      *)
(* connection stays open and the worker is back at the array-header        *)
(* position with nothing decoded, so that the command that follows is      *)
(* decoded as if the line had not been there.                              *)
(***************************************************************************)
C7_Resync ==
    [][\A c \in Conns :
          (/\ ReaderStep(c)
           /\ pc[c] = "header"
           /\ IndexLF(inbuf[c]) > 0
           /\ NonCommandLine(FirstLine(inbuf[c])))
          => /\ inbuf'[c] = Drop(inbuf[c], IndexLF(inbuf[c]))
             /\ out' = out
             /\ pc'[c] = "header"
             /\ command'[c] = <<>>
             /\ ~crashed']_vars

\* the same for the two later revisions alone
C7_ResyncLenient ==
    [][rev # "main.go" =>
        \A c \in Conns :
          (/\ ReaderStep(c)
           /\ pc[c] = "header"
           /\ IndexLF(inbuf[c]) > 0
           /\ NonCommandLine(FirstLine(inbuf[c])))
          => /\ inbuf'[c] = Drop(inbuf[c], IndexLF(inbuf[c]))
             /\ out' = out
             /\ pc'[c] = "header"
             /\ command'[c] = <<>>
             /\ ~crashed']_vars

(***************************************************************************)
(* C8.  When the loop over the elements of a command comes to a length     *)
(* line that is malformed, the command is dropped: nothing is dispatched   *)
(* for it, no reply of any kind is written, the connection stays open and  *)
(* decoding resumes at the array-header position with the line that        *)
(* follows.                                                                *)
(***************************************************************************)
C8_MalformedSilent ==
    [][\A c \in Conns :
          LET r == BulkLoop(inbuf[c], eof[c], rev, command[c], numElements[c])
          IN  (/\ ReaderStep(c)
               /\ pc[c] = "bulk"
               /\ r.kind \in {"break", "return"})
              => /\ out' = out
                 /\ pc'[c] = "header"
                 /\ inbuf'[c] = r.rest
                 /\ storage' = storage
                 /\ ~crashed']_vars

(***************************************************************************)
(* C9.  Transport faults: a read that fails, the client having closed its  *)
(* side, at the array header, at a length line or inside a payload, ends   *)
(* that worker alone: no reply is written, the elements decoded so far are *)
(* not dispatched, and the store, the lock and the other connections are   *)
(* as they were.                                                           *)
(***************************************************************************)
C9_TransportFault ==
    [][\A c \in Conns :
          (ReaderStep(c) /\ eof[c])
          => /\ pc'[c] = "closed"
             /\ out' = out
             /\ storage' = storage
             /\ mutex' = mutex
             /\ ~crashed'
             /\ OthersUntouched(c)]_vars

\* the first client closed after PING, the first of two elements, was
\* decoded; its worker ended without a reply while the second worker is
\* about to store
C9_Witness ==
    /\ pc["c1"] = "closed" /\ eof["c1"]
    /\ numElements["c1"] = 2 /\ command["c1"] = <<PING>>
    /\ out["c1"] = <<>>
    /\ pc["c2"] = "set_store"

(***************************************************************************)
(* C10.  Recoverable errors: a SET or RPUSH with fewer than two arguments, *)
(* a GET with none, and a command with an unknown name each get exactly    *)
(* one error reply; the store is as it was and the worker is back at the   *)
(* array-header position, the connection open, so that the next command is *)
(* decoded and handled.                                                    *)
(***************************************************************************)
Rejected(cmd) ==
    LET name == ToUpper(cmd[1])
    IN  \/ name \in {SET, RPUSH} /\ Len(cmd) < 3
        \/ name = GET /\ Len(cmd) < 2
        \/ name \notin {PING, ECHO, SET, GET, RPUSH}

C10_RecoverableErrors ==
    [][\A c \in Conns :
          LET r == BulkLoop(inbuf[c], eof[c], rev, command[c], numElements[c])
          IN  (/\ ReaderStep(c)
               /\ pc[c] = "bulk"
               /\ r.kind = "done"
               /\ Len(r.command) > 0
               /\ Rejected(r.command))
              => /\ Len(out'[c]) = Len(out[c]) + 1
                 /\ SubSeq(out'[c], 1, Len(out[c])) = out[c]
                 /\ NewReply(c)[1] = "-"
                 /\ storage' = storage
                 /\ mutex' = mutex
                 /\ pc'[c] = "header"
                 /\ inbuf'[c] = r.rest
                 /\ ~eof'[c] /\ ~crashed'
                 /\ OthersUntouched(c)]_vars

\* the first client sent a SET without arguments and a PING in one chunk and
\* holds the error reply followed by the reply of the PING, while the store
\* holds a key
C10_Witness ==
    /\ out["c1"] = <<ErrArity(<<"s", "e", "t">>), PONG>>
    /\ pc["c1"] = "header"
    /\ K1 \in DOMAIN storage

(***************************************************************************)
(* Vocabulary of the claims about SET.                                     *)
(***************************************************************************)
\* s is a decimal integer: an optional sign and digits
IsDecimal(s) ==
    LET body == IF Len(s) > 0 /\ s[1] \in {"+", "-"} THEN Tail(s) ELSE s
    IN  Len(body) > 0 /\ \A k \in 1..Len(body) : IsDigit(body[k])

\* the instant that lies the decimal integer s milliseconds after t, kept
\* within Horizon of t
After(t, s) ==
    LET minus == s[1] = "-"
        body == IF s[1] \in {"+", "-"} THEN Tail(s) ELSE s
        far == Len(body) > 4 \/ DigitsVal(body) >= Horizon
    IN  IF far THEN IF minus THEN t - Horizon ELSE t + Horizon
        ELSE IF minus THEN t - DigitsVal(body) ELSE t + DigitsVal(body)

\* the command has the five argument form with PX
HasPX(cmd) == Len(cmd) = 5 /\ ToUpper(cmd[4]) = PX

\* this step is the dispatch of a SET of worker c that is not rejected
SetBegins(c) == pc[c] = "bulk" /\ pc'[c] = "set_lock"

\* the String value with the value and the expiry given
Stored(v, t) ==
    [dataType |-> String, strData |-> <<[value |-> v, expiresAt |-> t]>>,
     listData |-> <<>>]

(***************************************************************************)
(* C11.  SET expiry option: a SET with exactly five arguments whose fourth *)
(* is PX in any case takes as its expiry the current time plus the fifth   *)
(* argument, a decimal integer, in milliseconds; a SET with at least three *)
(* arguments of any other shape takes no expiry.  The store write of the   *)
(* SET stores the value with that expiry and replies +OK.                  *)
(***************************************************************************)
C11_SetExpiry ==
    [][\A c \in Conns :
          /\ SetBegins(c) =>
                LET cmd == command'[c]
                IN  /\ (HasPX(cmd) /\ IsDecimal(cmd[5]))
                          => expiryTime'[c] = After(now, cmd[5])
                    /\ ~HasPX(cmd) => expiryTime'[c] = ZeroTime
          /\ SetWrites(c) =>
                /\ storage'[key(c)] = Stored(value(c), expiryTime[c])
                /\ NewReply(c) = OK]_vars

\* the same for a fifth argument of at most four digits
C11_SetExpiryShort ==
    [][\A c \in Conns :
          /\ SetBegins(c) =>
                LET cmd == command'[c]
                IN  /\ (HasPX(cmd) /\ IsDecimal(cmd[5]) /\ Len(cmd[5]) <= 4)
                          => expiryTime'[c] = After(now, cmd[5])
                    /\ ~HasPX(cmd) => expiryTime'[c] = ZeroTime
          /\ SetWrites(c) =>
                /\ storage'[key(c)] = Stored(value(c), expiryTime[c])
                /\ NewReply(c) = OK]_vars

(***************************************************************************)
(* C12.  RPUSH replaces rather than appends: whatever the key held before, *)
(* absent, a string or a list, the store write of RPUSH k e leaves k       *)
(* mapped to the list of the single element e, leaves the other keys as    *)
(* they were, and replies with the integer 1.                              *)
(***************************************************************************)
RPushWrites(c) == pc[c] = "rpush_store" /\ pc'[c] # "rpush_store"

C12_RPushReplaces ==
    [][\A c \in Conns :
          RPushWrites(c)
          => /\ storage'[key(c)] =
                   [dataType |-> List, strData |-> <<>>, listData |-> <<command[c][3]>>]
             /\ \A k \in DOMAIN storage \ {key(c)} :
                   k \in DOMAIN storage' /\ storage'[k] = storage[k]
             /\ Len(out'[c]) = Len(out[c]) + 1
             /\ NewReply(c) = <<":", "1">> \o CRLF]_vars

\* an RPUSH has replaced a list by a list of one element
C12_Witness ==
    /\ K1 \in DOMAIN lastWrite
    /\ lastWrite[K1].kind = "RPUSH" /\ lastWrite[K1].over = "list"
    /\ K1 \in DOMAIN storage
    /\ storage[K1].listData = <<"b">>
    /\ \E c \in Conns : pc[c] = "header" /\ out[c] = <<<<":", "1">> \o CRLF>>

(***************************************************************************)
(* C13.  Passive expiry and the frame of GET: a step changes the store     *)
(* only if it is the store write of a SET or an RPUSH, or the delete of a  *)
(* GET whose key holds an expired string, which removes that key and       *)
(* nothing else.  So GET of an absent, unexpired or list-typed key, PING,  *)
(* ECHO, rejected commands and the passage of time leave the store as it   *)
(* is, and an expired entry stays until such a GET or an overwrite.        *)
(***************************************************************************)
\* the key k holds a string whose expiry has passed
HoldsExpired(k) ==
    /\ k \in DOMAIN storage
    /\ storage[k].dataType = String
    /\ storage[k].strData # <<>>
    /\ storage[k].strData[1].expiresAt # ZeroTime
    /\ now > storage[k].strData[1].expiresAt

GetDeletes(c) == pc[c] = "get_delete" /\ pc'[c] # "get_delete"

C13_Frame ==
    [][storage' # storage
          => \E c \in Conns :
                \/ SetWrites(c)
                \/ RPushWrites(c)
                \/ /\ GetDeletes(c)
                   /\ HoldsExpired(key(c))
                   /\ storage' = [k \in DOMAIN storage \ {key(c)} |-> storage[k]]]_vars

(***************************************************************************)
(* C14.  Last writer wins on one key: whenever the value of a key changes  *)
(* or the key appears, the step is the store write of one SET or RPUSH of  *)
(* that key, and the key then holds the complete value of that writer: its *)
(* variant, its data and its expiry, nothing of another writer.  So the    *)
(* key holds the value of the writer that took the lock last.              *)
(***************************************************************************)
\* the value the last completed store write of the history gave the key
LastValue(k) ==
    IF lastWrite[k].kind = "SET"
    THEN Stored(lastWrite[k].value, lastWrite[k].expiresAt)
    ELSE [dataType |-> List, strData |-> <<>>, listData |-> <<lastWrite[k].value>>]

C14_LastWriterWins ==
    [][/\ \A k \in DOMAIN storage' :
             (k \notin DOMAIN storage \/ storage'[k] # storage[k])
             => \E c \in Conns :
                   \/ /\ SetWrites(c)
                      /\ key(c) = k
                      /\ storage'[k] = Stored(command[c][3], expiryTime[c])
                   \/ /\ RPushWrites(c)
                      /\ key(c) = k
                      /\ storage'[k] = [dataType |-> List, strData |-> <<>>,
                                        listData |-> <<command[c][3]>>]
       /\ \A k \in DOMAIN storage' :
             k \in DOMAIN lastWrite' /\ storage'[k] = LastValue(k)']_vars

\* two writers of one key at once: the SET of the first client is inside its
\* store write, over a value the key holds already, while the RPUSH of the
\* second waits for the lock
C14_Witness ==
    /\ pc["c1"] = "set_store" /\ key("c1") = K1
    /\ pc["c2"] = "rpush_lock" /\ key("c2") = K1
    /\ K1 \in DOMAIN storage

(***************************************************************************)
(* C15.  Single variant: every key of the store maps to a value of exactly *)
(* one variant.  An entry tagged String has its string data, with the      *)
(* expiry, and no list data; an entry tagged List has a list that is not   *)
(* empty and no string data.  The same holds of the entry a GET has read,  *)
(* so that its access to the string data of a String entry is defined, and *)
(* no GET ends in a panic.                                                 *)
(***************************************************************************)
OneVariant(v) ==
    /\ v.dataType \in {String, List}
    /\ v.dataType = String =>
          /\ Len(v.strData) = 1
          /\ DOMAIN v.strData[1] = {"value", "expiresAt"}
          /\ v.listData = <<>>
    /\ v.dataType = List =>
          /\ v.strData = <<>>
          /\ Len(v.listData) >= 1

C15_SingleVariant ==
    /\ \A k \in DOMAIN storage : OneVariant(storage[k])
    /\ \A c \in Conns :
          /\ entry[c] # <<>> => OneVariant(entry[c][1])
          /\ pc[c] # "panic"

\* the store holds a list at one key and a string at another while a GET is
\* about to look into the String entry it has read
C15_Witness ==
    /\ K1 \in DOMAIN storage /\ storage[K1].dataType = List
    /\ K2 \in DOMAIN storage /\ storage[K2].dataType = String
    /\ pc["c1"] = "get_check"
    /\ entry["c1"] # <<>> /\ entry["c1"][1].dataType = String

(***************************************************************************)
(* C16.  Per-connection sequencing: a worker takes bytes off its           *)
(* connection only at the read positions of its loop, never while a        *)
(* command is being handled; a reading step that dispatches a command      *)
(* leaves the bytes of the next command unread; a step writes at most one  *)
(* reply, at the end of the replies written so far, and only as it ends    *)
(* the handling of a command; every dispatched command gets exactly one    *)
(* reply, except ECHO without an argument, which gets none.                *)
(***************************************************************************)
\* the positions at which a worker handles a command it has dispatched
Handling == {"set_lock", "set_store", "get_rlock", "get_read", "get_check",
             "get_lock", "get_delete", "rpush_lock", "rpush_store"}

\* this step is the client of c reading the replies and sending a chunk
ClientReads(c) == sent'[c] # sent[c]

C16_Sequencing ==
    [][\A c \in Conns :
          LET r == BulkLoop(inbuf[c], eof[c], rev, command[c], numElements[c])
              emits == /\ pc[c] = "bulk" /\ pc'[c] # "bulk"
                       /\ r.kind \in {"done", "break"} /\ Len(r.command) > 0
              silent == ToUpper(r.command[1]) = ECHO /\ Len(r.command) = 1
          IN  /\ Len(inbuf'[c]) < Len(inbuf[c]) => pc[c] \in {"header", "bulk"}
              /\ pc[c] \in Handling => inbuf'[c] = inbuf[c]
              /\ ~ClientReads(c) =>
                    \/ out'[c] = out[c]
                    \/ /\ Len(out'[c]) = Len(out[c]) + 1
                       /\ SubSeq(out'[c], 1, Len(out[c])) = out[c]
                       /\ pc'[c] = "header"
                       /\ emits \/ pc[c] \in Handling
              /\ (pc[c] \in Handling /\ pc'[c] = "header")
                    => Len(out'[c]) = Len(out[c]) + 1
              /\ (emits /\ pc'[c] = "header")
                    => Len(out'[c]) = Len(out[c]) + (IF silent THEN 0 ELSE 1)
              /\ (emits /\ pc'[c] \in Handling)
                    => out'[c] = out[c] /\ command'[c] = r.command]_vars

\* the first client sent SET k a and GET k in one chunk: the SET is inside
\* its store write while the bytes of the GET are unread
C16_MidWitness ==
    /\ pc["c1"] = "set_store"
    /\ inbuf["c1"] = Encode(<<GET, K1>>)
    /\ out["c1"] = <<>>

\* both are handled and the replies stand in the order of the commands
C16_Witness ==
    /\ pc["c1"] = "header" /\ inbuf["c1"] = <<>>
    /\ out["c1"] = <<OK, Bulk(VA)>>

(***************************************************************************)
(* C18.  Decode round trip of well-formed frames: for a request of N >= 1  *)
(* arguments, *N\r\n followed by $L\r\n, the L bytes and two more bytes    *)
(* for each argument, the header step takes the header line and N as the   *)
(* count, and the element loop takes exactly the bytes of the request and  *)
(* dispatches one command, whose arguments are the N payloads in order,    *)
(* also when a payload holds CR, LF, '*' or '$' or is empty, and whatever  *)
(* the two bytes after a payload are.                                      *)
(***************************************************************************)
\* buf starts with the bytes pre
StartsWith(buf, pre) == Len(buf) >= Len(pre) /\ SubSeq(buf, 1, Len(pre)) = pre

C18_DecodeRoundTrip ==
    [][\A c \in Conns : \A f \in Frames :
          LET head == HeaderLineOf(Len(f.args))
              body == Body(f.args, f.end)
              to == Route(f.args, rev)
          IN  /\ (/\ ReaderStep(c) /\ pc[c] = "header"
                  /\ StartsWith(inbuf[c], head \o body))
                 => /\ pc'[c] = "bulk"
                    /\ numElements'[c] = Len(f.args)
                    /\ command'[c] = <<>>
                    /\ inbuf'[c] = Drop(inbuf[c], Len(head))
                    /\ out' = out
              /\ (/\ ReaderStep(c) /\ pc[c] = "bulk"
                  /\ command[c] = <<>> /\ numElements[c] = Len(f.args)
                  /\ StartsWith(inbuf[c], body))
                 => /\ inbuf'[c] = Drop(inbuf[c], Len(body))
                    /\ pc'[c] = to.to
                    /\ out'[c] = out[c] \o to.reply
                    /\ to.to # "header" => command'[c] = f.args]_vars

\* the first client holds the echo of a payload that holds '*', CR, LF and '$'
C18_Witness ==
    /\ pc["c1"] = "header" /\ inbuf["c1"] = <<>>
    /\ out["c1"] = <<Bulk(<<"*", "1", CR, LF, "$">>)>>

(***************************************************************************)
(* C17.  No operation blocks for ever: under a fair scheduler every        *)
(* command that has been dispatched leaves its handling, with its reply    *)
(* written and the lock given up: the lock is free whenever no worker is   *)
(* handling a command, and a step that writes a reply or takes bytes off   *)
(* the connection ends with its worker outside the lock.                   *)
(***************************************************************************)
\* worker c holds the mutex
InLock(c) == InWrite(c) \/ InRead(c)

C17_NoBlocking ==
    /\ \A c \in Conns : (pc[c] \in Handling) ~> (pc[c] = "header")
    /\ []((\A c \in Conns : pc[c] \notin Handling)
             => (~mutex.writer /\ mutex.readers = 0))
    /\ [][\A c \in Conns :
             (~ClientReads(c) /\ (out'[c] # out[c] \/ inbuf'[c] # inbuf[c]))
             => (~InLock(c)' /\ (mutex.writer' => \E d \in Conns \ {c} : InWrite(d)'))]_vars

\* the SET of the first client waits for the lock while the GET of the second
\* is inside its lookup, holding the read lock
C17_Witness ==
    /\ pc["c1"] = "set_lock"
    /\ pc["c2"] = "get_read"
    /\ mutex.readers = 1

(***************************************************************************)
(* C19.  Partial command emission: when the element loop, having          *)
(* collected the elements pre, comes to a line that is no length line, the *)
(* line is consumed and the loop is left; if pre is not empty it is        *)
(* dispatched as a command, with the reply of that command, and if it is   *)
(* empty nothing is dispatched and no reply is written.  A header *0       *)
(* likewise dispatches nothing and writes no reply.  The worker then       *)
(* reads on from the line that follows.                                    *)
(***************************************************************************)
\* the elements collected before the bad line
Partials == {<<>>, <<PING>>, <<SET, K1>>}

C20_FaultIsolation == ~crashed /\ \A c \in Conns : pc[c] # "panic"

====
